---- MODULE Spec2Model ----
(***************************************************************************)
(* Model of the CRUD scaffolds of Thempra/callfortender:                   *)
(*   "conv"  src/src/convocatoria.py  (convocation schema, repository,     *)
(*           service, router)                                              *)
(*   "proy"  src/src/proyecto.py      (user router, service, repository)   *)
(*   "ent"   src/src/entorno.py       (user router, service, repository)   *)
(*                                                                         *)
(* One behaviour runs one of the three applications (variant).  Every HTTP *)
(* request is one action: body validation, router handler, service,        *)
(* repository and the statements it issues against the session.            *)
(*                                                                         *)
(* The table of an entity is the sequence db of its rows in insertion      *)
(* order; the primary key is drawn from the sequence next_id of the        *)
(* PostgreSQL database the applications connect to, so a key is never      *)
(* handed out twice.  session.add(o) of an object that has no id inserts a *)
(* row, session.add(o) of an object read by id writes o's attributes to    *)
(* the row of that id, session.delete(o) removes the row of o's id.        *)
(* Strings are sequences of characters, dates are <<year, month, day>>.    *)
(***************************************************************************)
EXTENDS Integers, Sequences, FiniteSets, TLC

VARIABLES variant, db, next_id, req, ret, resp, before, stmts, hasher,
          pc, session, created, open, closed, task, local, answer

\* the state of the application serving one request at a time
app_vars == <<variant, db, next_id, req, ret, resp, before, stmts, hasher>>

\* the state of the requests in flight and of their sessions
session_vars == <<pc, session, created, open, closed>>

\* what each request in flight was asked, holds in its handler and answered
handler_vars == <<task, local, answer>>

vars == <<app_vars, session_vars, handler_vars>>

(***************************************************************************)
(* Bounds of the model.                                                    *)
(***************************************************************************)
MaxId == 2
MaxLimit == 2
NumRequests == 2
MaxSessions == 3

(***************************************************************************)
(* Values.                                                                 *)
(***************************************************************************)
None == <<"None">>

Str(c, n) == [i \in 1..n |-> c]

Date(y, m, d) == <<y, m, d>>

IsDate(v) == Len(v) = 3

Ids == 0..MaxId

\* the requests the server works on at the same time
Requests == 1..NumRequests

(***************************************************************************)
(* The session: statements against the table.                              *)
(***************************************************************************)
RECURSIVE Offset(_, _)
Offset(rows, skip) ==
    IF skip = 0 \/ rows = <<>> THEN rows ELSE Offset(Tail(rows), skip - 1)

RECURSIVE Limit(_, _)
Limit(rows, limit) ==
    IF limit = 0 \/ rows = <<>> THEN <<>>
    ELSE <<Head(rows)>> \o Limit(Tail(rows), limit - 1)

\* the limit applied before the offset
select_limit_offset(table, skip, limit) == Offset(Limit(table, limit), skip)

\* the offset left out of the statement
select_limit_only(table, skip, limit) == Limit(table, limit)

\* select(T).offset(skip).limit(limit) ... scalars().all()
select_offset_limit(table, skip, limit) == Limit(Offset(table, skip), limit)

\* select(T).where(T.id == id)
select_where_id(table, id) == SelectSeq(table, LAMBDA r : r.id = id)

\* result.scalar_one_or_none()
scalar_one_or_none(rows) ==
    IF Len(rows) = 0 THEN None
    ELSE IF Len(rows) = 1 THEN rows[1]
    ELSE <<"MultipleResultsFound">>

\* a key computed as one more than the largest key in the table
session_add_new_max_plus_one(table, seq, o) ==
    LET key == IF table = <<>> THEN 1 ELSE table[Len(table)].id + 1
        row == [f \in DOMAIN o \cup {"id"} |-> IF f = "id" THEN key ELSE o[f]]
    IN  [table |-> Append(table, row), seq |-> seq + 1, row |-> row]

\* session.add(o); commit(); refresh(o) for a new object: the row gets the
\* next value of the primary-key sequence and is appended to the table
session_add_new(table, seq, o) ==
    LET row == [f \in DOMAIN o \cup {"id"} |-> IF f = "id" THEN seq ELSE o[f]]
    IN  [table |-> Append(table, row), seq |-> seq + 1, row |-> row]

\* session.add(o); commit() for an object that carries the id of a row:
\* the attributes of o overwrite those of the row
session_add(table, o) ==
    [i \in 1..Len(table) |->
        IF table[i].id = o.id
        THEN [f \in DOMAIN table[i] |->
                 IF f \in DOMAIN o THEN o[f] ELSE table[i][f]]
        ELSE table[i]]

\* a DELETE without its WHERE clause
session_delete_every_row(table, o) == SelectSeq(table, LAMBDA r : FALSE)

\* session.delete(o); commit()
session_delete(table, o) == SelectSeq(table, LAMBDA r : r.id # o.id)

\* session.refresh(o): the attributes of o as the table has them
session_refresh(table, o) ==
    LET row == scalar_one_or_none(select_where_id(table, o.id))
    IN  [f \in DOMAIN o |-> row[f]]

\* Model.from_orm(o): the declared fields of Model read from o
from_orm(fields, o) == [f \in fields |-> o[f]]

\* update.dict() without exclude_unset: fields the body left out reset to None
setattr_all_unset_too(o, fields_set) ==
    [f \in DOMAIN o \cup DOMAIN fields_set |->
        IF f \in DOMAIN fields_set THEN fields_set[f]
        ELSE IF f = "id" THEN o[f] ELSE None]

\* for key, value in update.dict(exclude_unset=True).items(): setattr(o, key, value)
setattr_all(o, fields_set) ==
    [f \in DOMAIN o \cup DOMAIN fields_set |->
        IF f \in DOMAIN fields_set THEN fields_set[f] ELSE o[f]]

(***************************************************************************)
(* Outcomes of a repository call and HTTP responses.                       *)
(***************************************************************************)
Returned(v) == [kind |-> "return", value |-> v]

Raised(exc, detail) == [kind |-> exc, value |-> detail]

NotCalled == [kind |-> "not_called", value |-> None]

HTTPResponse(status, body) == [status |-> status, body |-> body]

\* the framework's answer to a body that fails the schema
RequestValidationError == HTTPResponse(422, <<"validation", "error">>)

\* the framework's answer to an exception no handler catches
InternalServerError == HTTPResponse(500, <<"Internal", "Server", "Error">>)

\* a request slot that has not been given a request
NoTask == [op |-> "none", id |-> 0, body |-> None]

Request(op, id, body, skip, limit) ==
    [op |-> op, id |-> id, body |-> body, skip |-> skip, limit |-> limit]

(***************************************************************************)
(* convocatoria.py: schema                                                 *)
(***************************************************************************)
ConvocationTitleMinLength == 5
ConvocationTitleMaxLength == 200
ConvocationDescriptionMinLength == 10

ConvocationBaseFields == {"title", "description", "start_date", "end_date"}

ConvocationFields == ConvocationBaseFields \cup {"id"}

\* the title bound compared with > in place of >=
ConvocationBase_valid_exclusive_min(body) ==
    /\ ConvocationBaseFields \subseteq DOMAIN body
    /\ body.title # None
    /\ Len(body.title) > ConvocationTitleMinLength
    /\ Len(body.title) <= ConvocationTitleMaxLength
    /\ body.description # None
    /\ Len(body.description) >= ConvocationDescriptionMinLength
    /\ IsDate(body.start_date)
    /\ IsDate(body.end_date)

\* ConvocationBase: every field is required; title and description are
\* length-bounded; no validator relates start_date to end_date
ConvocationBase_valid(body) ==
    /\ ConvocationBaseFields \subseteq DOMAIN body
    /\ body.title # None
    /\ Len(body.title) >= ConvocationTitleMinLength
    /\ Len(body.title) <= ConvocationTitleMaxLength
    /\ body.description # None
    /\ Len(body.description) >= ConvocationDescriptionMinLength
    /\ IsDate(body.start_date)
    /\ IsDate(body.end_date)

ConvocationCreate_valid(body) == ConvocationBase_valid(body)

ConvocationUpdate_valid(body) == ConvocationBase_valid(body)

\* the fields a validated body sets (unknown keys are dropped)
Convocation_fields_set(body) ==
    [f \in DOMAIN body \cap ConvocationBaseFields |-> body[f]]

(***************************************************************************)
(* convocatoria.py: ConvocationRepository                                  *)
(* Each operator yields the table, the key sequence, the outcome and the   *)
(* statements the call sent to the database through the session: commit    *)
(* flushes a pending insert, update or delete, refresh selects the row,    *)
(* and an object whose attributes were set to the values they had is not   *)
(* flushed.                                                                *)
(***************************************************************************)
Outcome(table, seq, r) ==
    [table |-> table, seq |-> seq, ret |-> r, stmts |-> <<>>, hasher |-> "none"]

\* the layer whose code called _hash_password while serving the call
Hashed(out, layer) == [out EXCEPT !.hasher = layer]

Issued(out, statements) == [out EXCEPT !.stmts = statements]

\* the flush of session.add(o) for an object read from the table
flush_update(table, table2) == IF table2 = table THEN <<>> ELSE <<"UPDATE">>

\* create that builds the object and never adds it to the session
ConvocationRepository_create_unsaved(table, seq, convocation) ==
    Outcome(table, seq + 1,
            Returned([id          |-> seq,
                      title       |-> convocation.title,
                      description |-> convocation.description,
                      start_date  |-> convocation.start_date,
                      end_date    |-> convocation.end_date]))

\* create that writes every new row under the first key
ConvocationRepository_create_first_key(table, seq, convocation) ==
    LET row == [f \in ConvocationFields |-> IF f = "id" THEN 1 ELSE convocation[f]]
    IN  Outcome(Append(table, row), seq + 1, Returned(row))

ConvocationRepository_create(table, seq, convocation) ==
    LET db_convocation == [title       |-> convocation.title,
                           description |-> convocation.description,
                           start_date  |-> convocation.start_date,
                           end_date    |-> convocation.end_date]
        added == session_add_new(table, seq, db_convocation)
    IN  Issued(Outcome(added.table, added.seq,
                       Returned(from_orm(ConvocationFields,
                                         session_refresh(added.table, added.row)))),
               <<"INSERT", "SELECT">>)

\* get_all that takes the rows it returns off the table
ConvocationRepository_get_all_consuming(table, seq, skip, limit) ==
    LET rows == select_offset_limit(table, skip, limit)
    IN  Issued(Outcome(SelectSeq(table, LAMBDA r : \A i \in 1..Len(rows) : rows[i].id # r.id),
                       seq,
                       Returned([i \in 1..Len(rows) |->
                                    from_orm(ConvocationFields, rows[i])])),
               <<"SELECT">>)

ConvocationRepository_get_all(table, seq, skip, limit) ==
    LET rows == select_offset_limit(table, skip, limit)
    IN  Issued(Outcome(table, seq,
                       Returned([i \in 1..Len(rows) |->
                                    from_orm(ConvocationFields, rows[i])])),
               <<"SELECT">>)

ConvocationRepository_get_by_id(table, seq, convocation_id) ==
    LET db_convocation == scalar_one_or_none(select_where_id(table, convocation_id))
    IN  Issued(IF db_convocation = None
               THEN Outcome(table, seq,
                            Raised("ValueError",
                                   <<"Convocation", "with", "id",
                                     ToString(convocation_id), "not", "found">>))
               ELSE Outcome(table, seq,
                            Returned(from_orm(ConvocationFields, db_convocation))),
               <<"SELECT">>)

\* update that returns the object it wrote without refreshing it
ConvocationRepository_update_no_refresh(table, seq, convocation_id, convocation_update) ==
    LET got == ConvocationRepository_get_by_id(table, seq, convocation_id)
    IN  IF got.ret.kind # "return" THEN got
        ELSE LET db_convocation == setattr_all(got.ret.value, convocation_update)
                 table2 == session_add(table, db_convocation)
             IN  Issued(Outcome(table2, seq,
                                Returned(from_orm(ConvocationFields, db_convocation))),
                        got.stmts \o flush_update(table, table2))

\* update that deletes the row and inserts the changed object as a new row
ConvocationRepository_update_reinsert(table, seq, convocation_id, convocation_update) ==
    LET got == ConvocationRepository_get_by_id(table, seq, convocation_id)
    IN  IF got.ret.kind # "return" THEN got
        ELSE LET db_convocation == setattr_all(got.ret.value, convocation_update)
                 added == session_add_new(session_delete(table, got.ret.value), seq,
                                          db_convocation)
             IN  Outcome(added.table, added.seq,
                         Returned(from_orm(ConvocationFields, added.row)))

ConvocationRepository_update(table, seq, convocation_id, convocation_update) ==
    LET got == ConvocationRepository_get_by_id(table, seq, convocation_id)
    IN  IF got.ret.kind # "return" THEN got
        ELSE LET db_convocation == setattr_all(got.ret.value, convocation_update)
                 table2 == session_add(table, db_convocation)
             IN  Issued(Outcome(table2, seq,
                                Returned(from_orm(ConvocationFields,
                                                  session_refresh(table2,
                                                                  db_convocation)))),
                        got.stmts \o flush_update(table, table2) \o <<"SELECT">>)

ConvocationRepository_delete(table, seq, convocation_id) ==
    LET got == ConvocationRepository_get_by_id(table, seq, convocation_id)
    IN  IF got.ret.kind # "return" THEN got
        ELSE Issued(Outcome(session_delete(table, got.ret.value), seq,
                            Returned(from_orm(ConvocationFields, got.ret.value))),
                    got.stmts \o <<"DELETE">>)

(***************************************************************************)
(* convocatoria.py: ConvocationService forwards to the repository          *)
(***************************************************************************)
ConvocationService_create_convocation(table, seq, convocation) ==
    ConvocationRepository_create(table, seq, convocation)

ConvocationService_get_all_convocations(table, seq, skip, limit) ==
    ConvocationRepository_get_all(table, seq, skip, limit)

ConvocationService_get_convocation_by_id(table, seq, convocation_id) ==
    ConvocationRepository_get_by_id(table, seq, convocation_id)

ConvocationService_update_convocation(table, seq, convocation_id, convocation_update) ==
    ConvocationRepository_update(table, seq, convocation_id, convocation_update)

\* a service that answers a delete with the lookup and leaves the row
ConvocationService_delete_convocation_lookup_only(table, seq, convocation_id) ==
    ConvocationRepository_get_by_id(table, seq, convocation_id)

ConvocationService_delete_convocation(table, seq, convocation_id) ==
    ConvocationRepository_delete(table, seq, convocation_id)

(***************************************************************************)
(* Sample request bodies for /convocations                                 *)
(***************************************************************************)
ConvocationTitles == {Str("C", 5), Str("D", 6)}

ConvocationDescriptions == {Str("x", 10)}

ConvocationStartDates == {Date(2023, 10, 1), Date(2023, 10, 31)}

ConvocationEndDates == {Date(2023, 10, 15)}

ConvocationSample ==
    [title |-> Str("C", 5), description |-> Str("x", 10),
     start_date |-> Date(2023, 10, 1), end_date |-> Date(2023, 10, 15)]

\* bodies that satisfy every field constraint, the start date before or
\* after the end date
ConvocationWellFormedBodies ==
    [title : ConvocationTitles, description : ConvocationDescriptions,
     start_date : ConvocationStartDates, end_date : ConvocationEndDates]

\* the sample with one field replaced, and the sample without description
ConvocationFaultyBodies ==
    {[ConvocationSample EXCEPT !.title = t] : t \in {Str("C", 0), Str("C", 4)}}
    \cup {[ConvocationSample EXCEPT !.description = d] : d \in {Str("x", 9), None}}
    \cup {[f \in ConvocationBaseFields \ {"description"} |-> ConvocationSample[f]]}

\* the sample with a title of 100, 101 and 201 characters
ConvocationLongTitleBodies ==
    {[ConvocationSample EXCEPT !.title = Str("C", n)] : n \in {100, 101, 201}}

\* the sample with an id the client made up
ConvocationClientIdBodies ==
    {[f \in ConvocationBaseFields \cup {"id"} |->
         IF f = "id" THEN 99 ELSE ConvocationSample[f]]}

ConvocationBodies ==
    ConvocationWellFormedBodies \cup ConvocationFaultyBodies
        \cup ConvocationLongTitleBodies \cup ConvocationClientIdBodies

(***************************************************************************)
(* A request completes: the store, the outcome and the response change     *)
(* together; before keeps the table as the request found it.               *)
(***************************************************************************)
Complete(request, out, response) ==
    /\ req' = request
    /\ before' = db
    /\ db' = out.table
    /\ next_id' = out.seq
    /\ ret' = out.ret
    /\ resp' = response
    /\ stmts' = out.stmts
    /\ hasher' = out.hasher
    /\ UNCHANGED variant
    /\ UNCHANGED session_vars
    /\ UNCHANGED handler_vars

\* the validation error surfacing as an unhandled exception
Rejected_as_server_error(request) ==
    Complete(request, Outcome(db, next_id, NotCalled), InternalServerError)

\* the body failed validation: the handler is never entered
Rejected(request) ==
    Complete(request, Outcome(db, next_id, NotCalled), RequestValidationError)

(***************************************************************************)
(* convocatoria.py: router /convocations                                   *)
(***************************************************************************)
\* response_model=Convocation
Convocation_response(r) == HTTPResponse(200, from_orm(ConvocationFields, r))

\* try: return ... except ValueError as e: raise HTTPException(404, str(e))
Convocation_try_404(out) ==
    IF out.ret.kind = "return" THEN Convocation_response(out.ret.value)
    ELSE IF out.ret.kind = "ValueError" THEN HTTPResponse(404, out.ret.value)
    ELSE InternalServerError

create_convocation ==
    /\ variant = "conv"
    /\ \E body \in ConvocationBodies :
          LET request == Request("create", 0, body, 0, 0)
          IN  IF ~ConvocationCreate_valid(body) THEN Rejected(request)
              ELSE /\ next_id <= MaxId
                   /\ LET out == ConvocationService_create_convocation(
                                     db, next_id, Convocation_fields_set(body))
                      IN  Complete(request, out,
                                   IF out.ret.kind = "return"
                                   THEN Convocation_response(out.ret.value)
                                   ELSE InternalServerError)

get_all_convocations ==
    /\ variant = "conv"
    /\ \E skip \in 0..MaxLimit, limit \in 0..MaxLimit :
          LET out == ConvocationService_get_all_convocations(db, next_id, skip, limit)
          IN  Complete(Request("get_all", 0, None, skip, limit), out,
                       HTTPResponse(200, out.ret.value))

get_convocation_by_id ==
    /\ variant = "conv"
    /\ \E convocation_id \in Ids :
          LET out == ConvocationService_get_convocation_by_id(db, next_id, convocation_id)
          IN  Complete(Request("get_by_id", convocation_id, None, 0, 0), out,
                       Convocation_try_404(out))

update_convocation ==
    /\ variant = "conv"
    /\ \E convocation_id \in Ids, body \in ConvocationBodies :
          LET request == Request("update", convocation_id, body, 0, 0)
          IN  IF ~ConvocationUpdate_valid(body) THEN Rejected(request)
              ELSE LET out == ConvocationService_update_convocation(
                                  db, next_id, convocation_id,
                                  Convocation_fields_set(body))
                   IN  Complete(request, out, Convocation_try_404(out))

delete_convocation ==
    /\ variant = "conv"
    /\ \E convocation_id \in Ids :
          LET out == ConvocationService_delete_convocation(db, next_id, convocation_id)
          IN  Complete(Request("delete", convocation_id, None, 0, 0), out,
                       Convocation_try_404(out))

(***************************************************************************)
(* proyecto.py, entorno.py: user schema (the same in both files)           *)
(***************************************************************************)
UsernameMinLength == 3
UsernameMaxLength == 50
PasswordMinLength == 8

UserBaseFields == {"username", "email", "first_name", "last_name", "date_of_birth"}

UserCreateFields == UserBaseFields \cup {"password"}

\* User(UserInDBBase): the fields returned to the client
UserFields == UserBaseFields \cup {"id"}

\* UserInDB: the fields of a stored row
UserInDBFields == UserFields \cup {"hashed_password"}

Count(s, c) == Cardinality({i \in 1..Len(s) : s[i] = c})

\* EmailStr: one "@", a local part before it, a dotted domain after it
EmailStr_valid(s) ==
    /\ s # None
    /\ Count(s, "@") = 1
    /\ LET at == CHOOSE i \in 1..Len(s) : s[i] = "@"
       IN  /\ at > 1
           /\ \E dot \in (at + 2)..(Len(s) - 1) : s[dot] = "."

\* UserBase: username and email are required, the rest defaults to None
UserBase_valid(body) ==
    /\ {"username", "email"} \subseteq DOMAIN body
    /\ body.username # None
    /\ Len(body.username) >= UsernameMinLength
    /\ Len(body.username) <= UsernameMaxLength
    /\ EmailStr_valid(body.email)

\* password required, its length not checked
UserCreate_valid_any_password(body) ==
    /\ UserBase_valid(body)
    /\ "password" \in DOMAIN body
    /\ body.password # None

\* UserCreate(UserBase): password is required
UserCreate_valid(body) ==
    /\ UserBase_valid(body)
    /\ "password" \in DOMAIN body
    /\ body.password # None
    /\ Len(body.password) >= PasswordMinLength

\* UserUpdate(UserBase) adds nothing: username and email stay required
UserUpdate_valid(body) == UserBase_valid(body)

\* unset fields defaulting to the empty string
UserCreate_model_empty_defaults(body) ==
    [f \in UserCreateFields |-> IF f \in DOMAIN body THEN body[f] ELSE <<>>]

\* the validated UserCreate object: unset optional fields read as None
UserCreate_model(body) ==
    [f \in UserCreateFields |-> IF f \in DOMAIN body THEN body[f] ELSE None]

\* user_update.dict(exclude_unset=True)
UserUpdate_fields_set(body) == [f \in DOMAIN body \cap UserBaseFields |-> body[f]]

\* a hash that prefixes the password with a marker
UserRepository_hash_password_marked(password) == <<"$">> \o password

\* _hash_password: "Placeholder for actual hashing logic"
UserRepository_hash_password(password) == password

\* UserInDB(username=..., ..., hashed_password=self._hash_password(user.password))
UserInDB_new(user) ==
    [username        |-> user.username,
     email           |-> user.email,
     first_name      |-> user.first_name,
     last_name       |-> user.last_name,
     date_of_birth   |-> user.date_of_birth,
     hashed_password |-> UserRepository_hash_password(user.password)]

(***************************************************************************)
(* proyecto.py: the users table declares username and email unique         *)
(***************************************************************************)
\* only username declared unique
proyecto_unique_violation_username_only(table, o, self_id) ==
    \E i \in 1..Len(table) :
        /\ table[i].id # self_id
        /\ table[i].username = o.username

proyecto_unique_violation(table, o, self_id) ==
    \E i \in 1..Len(table) :
        /\ table[i].id # self_id
        /\ \/ table[i].username = o.username
           \/ table[i].email = o.email

(***************************************************************************)
(* proyecto.py: UserRepository (returns the UserInDB rows themselves)      *)
(***************************************************************************)
proyecto_UserRepository_create(table, seq, user) ==
    LET db_user == UserInDB_new(user)
    IN  Hashed(IF proyecto_unique_violation(table, db_user, 0)
               THEN Issued(Outcome(table, seq,
                                   Raised("IntegrityError", <<"IntegrityError">>)),
                           <<"INSERT">>)
               ELSE LET added == session_add_new(table, seq, db_user)
                    IN  Issued(Outcome(added.table, added.seq,
                                       Returned(session_refresh(added.table, added.row))),
                               <<"INSERT", "SELECT">>),
               "repository")

proyecto_UserRepository_get_all(table, seq, skip, limit) ==
    Issued(Outcome(table, seq, Returned(select_offset_limit(table, skip, limit))),
           <<"SELECT">>)

proyecto_UserRepository_get_by_id(table, seq, user_id) ==
    Issued(Outcome(table, seq,
                   Returned(scalar_one_or_none(select_where_id(table, user_id)))),
           <<"SELECT">>)

proyecto_UserRepository_update(table, seq, user_id, user_update) ==
    LET got == proyecto_UserRepository_get_by_id(table, seq, user_id)
    IN  IF got.ret.value = None
        THEN Issued(Outcome(table, seq, Raised("ValueError", <<"User", "not", "found">>)),
                    got.stmts)
        ELSE LET db_user == setattr_all(got.ret.value, user_update)
             IN  IF proyecto_unique_violation(table, db_user, user_id)
                 THEN Issued(Outcome(table, seq,
                                     Raised("IntegrityError", <<"IntegrityError">>)),
                             got.stmts \o <<"UPDATE">>)
                 ELSE LET table2 == session_add(table, db_user)
                      IN  Issued(Outcome(table2, seq,
                                         Returned(session_refresh(table2, db_user))),
                                 got.stmts \o flush_update(table, table2)
                                     \o <<"SELECT">>)

proyecto_UserRepository_delete(table, seq, user_id) ==
    LET got == proyecto_UserRepository_get_by_id(table, seq, user_id)
    IN  IF got.ret.value = None
        THEN Issued(Outcome(table, seq, Raised("ValueError", <<"User", "not", "found">>)),
                    got.stmts)
        ELSE Issued(Outcome(session_delete(table, got.ret.value), seq,
                            Returned(got.ret.value)),
                    got.stmts \o <<"DELETE">>)

(***************************************************************************)
(* proyecto.py: CallProcessingService forwards to the repository           *)
(***************************************************************************)
proyecto_CallProcessingService_create_user(table, seq, user) ==
    proyecto_UserRepository_create(table, seq, user)

proyecto_CallProcessingService_get_users(table, seq, skip, limit) ==
    proyecto_UserRepository_get_all(table, seq, skip, limit)

proyecto_CallProcessingService_get_user_by_id(table, seq, user_id) ==
    proyecto_UserRepository_get_by_id(table, seq, user_id)

proyecto_CallProcessingService_update_user(table, seq, user_id, user_update) ==
    proyecto_UserRepository_update(table, seq, user_id, user_update)

proyecto_CallProcessingService_delete_user(table, seq, user_id) ==
    proyecto_UserRepository_delete(table, seq, user_id)

(***************************************************************************)
(* entorno.py: UserRepository (returns User copies, raises when absent)    *)
(***************************************************************************)
entorno_UserRepository_create(table, seq, user) ==
    LET added == session_add_new(table, seq, UserInDB_new(user))
    IN  Hashed(Issued(Outcome(added.table, added.seq,
                              Returned(from_orm(UserFields,
                                                session_refresh(added.table,
                                                                added.row)))),
                      <<"INSERT", "SELECT">>),
               "repository")

entorno_UserRepository_get_all(table, seq, skip, limit) ==
    LET rows == select_offset_limit(table, skip, limit)
    IN  Issued(Outcome(table, seq,
                       Returned([i \in 1..Len(rows) |-> from_orm(UserFields, rows[i])])),
               <<"SELECT">>)

entorno_UserRepository_get_by_id(table, seq, user_id) ==
    LET db_user == scalar_one_or_none(select_where_id(table, user_id))
    IN  Issued(IF db_user = None
               THEN Outcome(table, seq,
                            Raised("ValueError",
                                   <<"User", "with", "id", ToString(user_id),
                                     "not", "found">>))
               ELSE Outcome(table, seq, Returned(from_orm(UserFields, db_user))),
               <<"SELECT">>)

entorno_UserRepository_update(table, seq, user_id, user_update) ==
    LET got == entorno_UserRepository_get_by_id(table, seq, user_id)
    IN  IF got.ret.kind # "return" THEN got
        ELSE LET db_user == setattr_all(got.ret.value, user_update)
                 table2 == session_add(table, db_user)
             IN  Issued(Outcome(table2, seq,
                                Returned(from_orm(UserFields,
                                                  session_refresh(table2, db_user)))),
                        got.stmts \o flush_update(table, table2) \o <<"SELECT">>)

entorno_UserRepository_delete(table, seq, user_id) ==
    LET got == entorno_UserRepository_get_by_id(table, seq, user_id)
    IN  IF got.ret.kind # "return" THEN got
        ELSE Issued(Outcome(session_delete(table, got.ret.value), seq,
                            Returned(from_orm(UserFields, got.ret.value))),
                    got.stmts \o <<"DELETE">>)

(***************************************************************************)
(* entorno.py: CallProcessingService forwards to the repository            *)
(***************************************************************************)
entorno_CallProcessingService_create(table, seq, user) ==
    entorno_UserRepository_create(table, seq, user)

entorno_CallProcessingService_get_by_id(table, seq, user_id) ==
    entorno_UserRepository_get_by_id(table, seq, user_id)

entorno_CallProcessingService_update(table, seq, user_id, user_update) ==
    entorno_UserRepository_update(table, seq, user_id, user_update)

entorno_CallProcessingService_delete(table, seq, user_id) ==
    entorno_UserRepository_delete(table, seq, user_id)

(***************************************************************************)
(* Sample request bodies for /users                                        *)
(***************************************************************************)
Usernames == {<<"b", "o", "b">>, Str("a", 50)}

Emails == {<<"a", "@", "b", ".", "c">>, <<"d", "@", "e", ".", "f">>}

Jane == <<"J", "a", "n", "e">>

Doe == <<"D", "o", "e">>

UserSample ==
    [username |-> <<"b", "o", "b">>, email |-> <<"a", "@", "b", ".", "c">>,
     password |-> Str("p", 8)]

\* well-formed Create-inputs: the optional names are omitted or supplied
UserCreateWellFormedBodies ==
    [username : Usernames, email : Emails, password : {Str("p", 8)}]
    \cup [username : Usernames, email : Emails, password : {Str("p", 8)},
          first_name : {Jane}, last_name : {Doe}]

\* the sample with one field out of bounds
UserCreateFaultyBodies ==
    {[UserSample EXCEPT !.username = <<"u", "s">>],
     [UserSample EXCEPT !.username = Str("a", 51)],
     [UserSample EXCEPT !.email = <<"a", "b">>],
     [UserSample EXCEPT !.password = Str("p", 7)]}

\* the sample with an id the client made up
UserClientIdBodies ==
    {[f \in DOMAIN UserSample \cup {"id"} |-> IF f = "id" THEN 99 ELSE UserSample[f]]}

UserCreateBodies ==
    UserCreateWellFormedBodies \cup UserCreateFaultyBodies \cup UserClientIdBodies

UserKeys ==
    {[username |-> <<"b", "o", "b">>, email |-> <<"a", "@", "b", ".", "c">>],
     [username |-> Str("a", 50), email |-> <<"d", "@", "e", ".", "f">>]}

\* Update-inputs that carry username and email, and no name or both names
UserUpdateWellFormedBodies ==
    UserKeys
    \cup {[username |-> k.username, email |-> k.email, first_name |-> Jane,
           last_name |-> Doe] : k \in UserKeys}

\* Update-inputs that leave out username and email, or break a bound
UserUpdatePartialBodies ==
    {[first_name |-> Jane], [first_name |-> Jane, last_name |-> Doe]}

UserUpdateFaultyBodies ==
    {[username |-> <<"u", "s">>, email |-> <<"a", "@", "b", ".", "c">>],
     [username |-> <<"b", "o", "b">>, email |-> <<"a", "b">>]}

UserUpdateBodies ==
    UserUpdateWellFormedBodies \cup UserUpdatePartialBodies \cup UserUpdateFaultyBodies
        \cup UserClientIdBodies

(***************************************************************************)
(* proyecto.py: router /users (every handler: except Exception -> 500)     *)
(***************************************************************************)
\* the handler's return value sent as it is, with no response model
User_response_unfiltered(r) ==
    IF r = None THEN InternalServerError ELSE HTTPResponse(200, r)

\* response_model=User applied to the handler's return value; a value that
\* is not a user fails the response validation outside the handler's try
User_response(r) ==
    IF r = None THEN InternalServerError
    ELSE HTTPResponse(200, from_orm(UserFields, r))

\* try: return ... except Exception as e: raise HTTPException(500, str(e))
proyecto_try_500(out) ==
    IF out.ret.kind = "return" THEN User_response(out.ret.value)
    ELSE HTTPResponse(500, out.ret.value)

proyecto_create_user ==
    /\ variant = "proy"
    /\ \E body \in UserCreateBodies :
          LET request == Request("create", 0, body, 0, 0)
          IN  IF ~UserCreate_valid(body) THEN Rejected(request)
              ELSE /\ next_id <= MaxId
                   /\ LET out == proyecto_CallProcessingService_create_user(
                                     db, next_id, UserCreate_model(body))
                      IN  Complete(request, out, proyecto_try_500(out))

proyecto_read_users ==
    /\ variant = "proy"
    /\ \E skip \in 0..MaxLimit, limit \in 0..MaxLimit :
          LET out == proyecto_CallProcessingService_get_users(db, next_id, skip, limit)
          IN  Complete(Request("get_all", 0, None, skip, limit), out,
                       HTTPResponse(200, [i \in 1..Len(out.ret.value) |->
                                             from_orm(UserFields, out.ret.value[i])]))

proyecto_read_user ==
    /\ variant = "proy"
    /\ \E user_id \in Ids :
          LET out == proyecto_CallProcessingService_get_user_by_id(db, next_id, user_id)
          IN  Complete(Request("get_by_id", user_id, None, 0, 0), out,
                       proyecto_try_500(out))

proyecto_update_user ==
    /\ variant = "proy"
    /\ \E user_id \in Ids, body \in UserUpdateBodies :
          LET request == Request("update", user_id, body, 0, 0)
          IN  IF ~UserUpdate_valid(body) THEN Rejected(request)
              ELSE LET out == proyecto_CallProcessingService_update_user(
                                  db, next_id, user_id, UserUpdate_fields_set(body))
                   IN  Complete(request, out, proyecto_try_500(out))

proyecto_delete_user ==
    /\ variant = "proy"
    /\ \E user_id \in Ids :
          LET out == proyecto_CallProcessingService_delete_user(db, next_id, user_id)
          IN  Complete(Request("delete", user_id, None, 0, 0), out,
                       proyecto_try_500(out))

(***************************************************************************)
(* entorno.py: router /users (ValueError -> 404, Exception -> 500)         *)
(***************************************************************************)
entorno_try_404_500(out) ==
    IF out.ret.kind = "return" THEN User_response(out.ret.value)
    ELSE IF out.ret.kind = "ValueError" THEN HTTPResponse(404, out.ret.value)
    ELSE HTTPResponse(500, out.ret.value)

entorno_create_user ==
    /\ variant = "ent"
    /\ \E body \in UserCreateBodies :
          LET request == Request("create", 0, body, 0, 0)
          IN  IF ~UserCreate_valid(body) THEN Rejected(request)
              ELSE /\ next_id <= MaxId
                   /\ LET out == entorno_CallProcessingService_create(
                                     db, next_id, UserCreate_model(body))
                      IN  Complete(request, out,
                                   IF out.ret.kind = "return"
                                   THEN User_response(out.ret.value)
                                   ELSE HTTPResponse(500, out.ret.value))

entorno_get_user ==
    /\ variant = "ent"
    /\ \E user_id \in Ids :
          LET out == entorno_CallProcessingService_get_by_id(db, next_id, user_id)
          IN  Complete(Request("get_by_id", user_id, None, 0, 0), out,
                       entorno_try_404_500(out))

entorno_update_user ==
    /\ variant = "ent"
    /\ \E user_id \in Ids, body \in UserUpdateBodies :
          LET request == Request("update", user_id, body, 0, 0)
          IN  IF ~UserUpdate_valid(body) THEN Rejected(request)
              ELSE LET out == entorno_CallProcessingService_update(
                                  db, next_id, user_id, UserUpdate_fields_set(body))
                   IN  Complete(request, out, entorno_try_404_500(out))

entorno_delete_user ==
    /\ variant = "ent"
    /\ \E user_id \in Ids :
          LET out == entorno_CallProcessingService_delete(db, next_id, user_id)
          IN  Complete(Request("delete", user_id, None, 0, 0), out,
                       entorno_try_404_500(out))

(***************************************************************************)
(* Specification                                                           *)
(***************************************************************************)
Init ==
    /\ variant \in {"conv", "proy", "ent"}
    /\ db = <<>>
    /\ next_id = 1
    /\ req = Request("none", 0, None, 0, 0)
    /\ ret = NotCalled
    /\ resp = HTTPResponse(0, None)
    /\ before = <<>>
    /\ stmts = <<>>
    /\ hasher = "none"
    /\ pc = [r \in Requests |-> "idle"]
    /\ session = [r \in Requests |-> 0]
    /\ created = 0
    /\ open = {}
    /\ closed = {}
    /\ task = [r \in Requests |-> NoTask]
    /\ local = [r \in Requests |-> None]
    /\ answer = [r \in Requests |-> HTTPResponse(0, None)]

Next ==
    \/ create_convocation
    \/ get_all_convocations
    \/ get_convocation_by_id
    \/ update_convocation
    \/ delete_convocation
    \/ proyecto_create_user
    \/ proyecto_read_users
    \/ proyecto_read_user
    \/ proyecto_update_user
    \/ proyecto_delete_user
    \/ entorno_create_user
    \/ entorno_get_user
    \/ entorno_update_user
    \/ entorno_delete_user

Spec == Init /\ [][Next]_vars

(***************************************************************************)
(* entorno.py get_db, proyecto.py get_session: the session of a request    *)
(*     async with AsyncSessionLocal() as session:                          *)
(*         yield session                                                   *)
(* A request enters the dependency, which makes a new session and yields   *)
(* it to the handler; the handler returns or raises; the async with block  *)
(* is left on either path and closes the session.  The server works on     *)
(* NumRequests requests at a time and serves MaxSessions requests in all;  *)
(* closed keeps each closed session with the way its handler ended.        *)
(***************************************************************************)
\* the session closed only when the handler returned normally
get_db_exit_after_return_only(r) ==
    /\ pc[r] = "returned"
    /\ open' = open \ {session[r]}
    /\ closed' = closed \cup {[id |-> session[r], after |-> pc[r]]}
    /\ pc' = [pc EXCEPT ![r] = "idle"]
    /\ session' = [session EXCEPT ![r] = 0]
    /\ UNCHANGED created
    /\ UNCHANGED app_vars
    /\ UNCHANGED handler_vars

\* AsyncSessionLocal(): a new session; yield session
get_db_enter(r) ==
    /\ pc[r] = "idle"
    /\ created < MaxSessions
    /\ created' = created + 1
    /\ open' = open \cup {created + 1}
    /\ session' = [session EXCEPT ![r] = created + 1]
    /\ pc' = [pc EXCEPT ![r] = "handler"]
    /\ UNCHANGED closed
    /\ UNCHANGED app_vars
    /\ UNCHANGED handler_vars

\* the handler returns its response
handler_return(r) ==
    /\ pc[r] = "handler"
    /\ pc' = [pc EXCEPT ![r] = "returned"]
    /\ UNCHANGED <<session, created, open, closed>>
    /\ UNCHANGED app_vars
    /\ UNCHANGED handler_vars

\* the handler raises (HTTPException or any other exception)
handler_raise(r) ==
    /\ pc[r] = "handler"
    /\ pc' = [pc EXCEPT ![r] = "raised"]
    /\ UNCHANGED <<session, created, open, closed>>
    /\ UNCHANGED app_vars
    /\ UNCHANGED handler_vars

\* the async with block is left, normally or by the exception: session.close()
get_db_exit(r) ==
    /\ pc[r] \in {"returned", "raised"}
    /\ open' = open \ {session[r]}
    /\ closed' = closed \cup {[id |-> session[r], after |-> pc[r]]}
    /\ pc' = [pc EXCEPT ![r] = "idle"]
    /\ session' = [session EXCEPT ![r] = 0]
    /\ UNCHANGED created
    /\ UNCHANGED app_vars
    /\ UNCHANGED handler_vars

InitSessions ==
    /\ Init
    /\ variant = "ent"

NextSessions ==
    \E r \in Requests :
        \/ get_db_enter(r)
        \/ handler_return(r)
        \/ handler_raise(r)
        \/ get_db_exit(r)

\* the event loop runs every handler to its end and then leaves the
\* dependency's async with block
FairSessions ==
    \A r \in Requests :
        /\ WF_vars(handler_return(r) \/ handler_raise(r))
        /\ WF_vars(get_db_exit(r))

SpecSessions == InitSessions /\ [][NextSessions]_vars /\ FairSessions

(***************************************************************************)
(* Vocabulary of the properties                                            *)
(***************************************************************************)
\* the repository of the running application
Repository_get_by_id(table, seq, id) ==
    CASE variant = "conv" -> ConvocationRepository_get_by_id(table, seq, id)
      [] variant = "proy" -> proyecto_UserRepository_get_by_id(table, seq, id)
      [] variant = "ent"  -> entorno_UserRepository_get_by_id(table, seq, id)

Repository_get_all(table, seq, skip, limit) ==
    CASE variant = "conv" -> ConvocationRepository_get_all(table, seq, skip, limit)
      [] variant = "proy" -> proyecto_UserRepository_get_all(table, seq, skip, limit)
      [] variant = "ent"  -> entorno_UserRepository_get_all(table, seq, skip, limit)

\* the object the handler of a request hands to the service
ValidatedBody(request) ==
    CASE variant = "conv" -> Convocation_fields_set(request.body)
      [] variant # "conv" /\ request.op = "create" -> UserCreate_model(request.body)
      [] OTHER -> UserUpdate_fields_set(request.body)

\* the repository method a request ends in, called on a table
Repository_call(table, seq, request) ==
    CASE request.op = "create" ->
             (CASE variant = "conv" ->
                       ConvocationRepository_create(table, seq, ValidatedBody(request))
                [] variant = "proy" ->
                       proyecto_UserRepository_create(table, seq, ValidatedBody(request))
                [] variant = "ent" ->
                       entorno_UserRepository_create(table, seq, ValidatedBody(request)))
      [] request.op = "get_all" ->
             Repository_get_all(table, seq, request.skip, request.limit)
      [] request.op = "get_by_id" -> Repository_get_by_id(table, seq, request.id)
      [] request.op = "update" ->
             (CASE variant = "conv" ->
                       ConvocationRepository_update(table, seq, request.id,
                                                    ValidatedBody(request))
                [] variant = "proy" ->
                       proyecto_UserRepository_update(table, seq, request.id,
                                                      ValidatedBody(request))
                [] variant = "ent" ->
                       entorno_UserRepository_update(table, seq, request.id,
                                                     ValidatedBody(request)))
      [] request.op = "delete" ->
             (CASE variant = "conv" -> ConvocationRepository_delete(table, seq, request.id)
                [] variant = "proy" -> proyecto_UserRepository_delete(table, seq, request.id)
                [] variant = "ent" -> entorno_UserRepository_delete(table, seq, request.id))

\* the service method the handler of a request calls, on the same table
Service_call(table, seq, request) ==
    CASE request.op = "create" ->
             (CASE variant = "conv" ->
                       ConvocationService_create_convocation(table, seq,
                                                             ValidatedBody(request))
                [] variant = "proy" ->
                       proyecto_CallProcessingService_create_user(table, seq,
                                                                  ValidatedBody(request))
                [] variant = "ent" ->
                       entorno_CallProcessingService_create(table, seq,
                                                            ValidatedBody(request)))
      [] request.op = "get_all" ->
             (CASE variant = "conv" ->
                       ConvocationService_get_all_convocations(table, seq, request.skip,
                                                               request.limit)
                [] variant = "proy" ->
                       proyecto_CallProcessingService_get_users(table, seq, request.skip,
                                                                request.limit))
      [] request.op = "get_by_id" ->
             (CASE variant = "conv" ->
                       ConvocationService_get_convocation_by_id(table, seq, request.id)
                [] variant = "proy" ->
                       proyecto_CallProcessingService_get_user_by_id(table, seq, request.id)
                [] variant = "ent" ->
                       entorno_CallProcessingService_get_by_id(table, seq, request.id))
      [] request.op = "update" ->
             (CASE variant = "conv" ->
                       ConvocationService_update_convocation(table, seq, request.id,
                                                             ValidatedBody(request))
                [] variant = "proy" ->
                       proyecto_CallProcessingService_update_user(table, seq, request.id,
                                                                  ValidatedBody(request))
                [] variant = "ent" ->
                       entorno_CallProcessingService_update(table, seq, request.id,
                                                            ValidatedBody(request)))
      [] request.op = "delete" ->
             (CASE variant = "conv" ->
                       ConvocationService_delete_convocation(table, seq, request.id)
                [] variant = "proy" ->
                       proyecto_CallProcessingService_delete_user(table, seq, request.id)
                [] variant = "ent" ->
                       entorno_CallProcessingService_delete(table, seq, request.id))

\* the value of the key sequence when the last request arrived
SeqBefore == IF req.op = "create" /\ ret.kind = "return" THEN next_id - 1 ELSE next_id

\* the fields of the Read-output of the running application
ReadFields == IF variant = "conv" THEN ConvocationFields ELSE UserFields

\* the fields an Update-input can carry
UpdateFields == IF variant = "conv" THEN ConvocationBaseFields ELSE UserBaseFields

HasRow(table, id) == \E i \in 1..Len(table) : table[i].id = id

RowOf(table, id) == table[CHOOSE i \in 1..Len(table) : table[i].id = id]

\* the message of an error says "not found"
ContainsNotFound(detail) ==
    \E i \in 1..(Len(detail) - 1) : detail[i] = "not" /\ detail[i + 1] = "found"

\* a repository call failed with the Not-found error
IsNotFound(r) == r.kind = "ValueError" /\ ContainsNotFound(r.value)

\* a repository call handed back an entity
IsEntity(r) == r.kind = "return" /\ r.value # None

\* the request reached the handler (its body, if any, passed the schema)
Handled == ret.kind # "not_called"

\* the body of the request fails the schema its endpoint declares
BodyFailsSchema ==
    CASE req.op = "create" /\ variant = "conv" -> ~ConvocationCreate_valid(req.body)
      [] req.op = "update" /\ variant = "conv" -> ~ConvocationUpdate_valid(req.body)
      [] req.op = "create" /\ variant # "conv" -> ~UserCreate_valid(req.body)
      [] req.op = "update" /\ variant # "conv" -> ~UserUpdate_valid(req.body)
      [] OTHER -> FALSE

\* the sessions that have been closed
ClosedIds == {c.id : c \in closed}

\* date a is earlier than date b
DateLess(a, b) ==
    \/ a[1] < b[1]
    \/ a[1] = b[1] /\ a[2] < b[2]
    \/ a[1] = b[1] /\ a[2] = b[2] /\ a[3] < b[3]

\* id was assigned by an earlier create and its row is gone
Deleted(table, seq, id) == id >= 1 /\ id < seq /\ ~HasRow(table, id)

(***************************************************************************)
(* Requests in flight at the same time (convocatoria.py, proyecto.py).     *)
(* Every handler runs in a session of its own and gives way to the other   *)
(* requests at each await: update and delete between the SELECT of their   *)
(* lookup and the commit, update and create between the commit and the     *)
(* refresh.  The flush of a changed object writes the columns whose value  *)
(* differs from the one loaded, to the row of its id as the table holds it *)
(* at that moment; a DELETE that matches no row is only warned about, an   *)
(* UPDATE that matches no row raises StaleDataError.  A client reading two *)
(* pages sends two get_all requests, one after the other.  The table       *)
(* starts with two rows created by earlier requests.                       *)
(***************************************************************************)
Eve == <<"e", "v", "e">>

\* the table after two creates
ConcurrentStore(v) ==
    IF v = "conv"
    THEN LET first == ConvocationRepository_create(
                          <<>>, 1, Convocation_fields_set(ConvocationSample))
         IN  ConvocationRepository_create(
                 first.table, first.seq,
                 [ConvocationSample EXCEPT !.title = Str("D", 6),
                                           !.start_date = Date(2023, 10, 31)])
    ELSE LET first == proyecto_UserRepository_create(
                          <<>>, 1, UserCreate_model(UserSample))
         IN  proyecto_UserRepository_create(
                 first.table, first.seq,
                 UserCreate_model([username |-> Eve,
                                   email |-> <<"e", "@", "v", ".", "e">>,
                                   password |-> Str("p", 8)]))

\* Update-inputs that each change one field of the first row and repeat
\* the value the other one changes
ConcurrentUpdateBodies ==
    IF variant = "conv"
    THEN {[ConvocationSample EXCEPT !.title = Str("D", 6)],
          [ConvocationSample EXCEPT !.start_date = Date(2023, 10, 31)]}
    ELSE {[username |-> <<"b", "o", "b">>, email |-> <<"d", "@", "e", ".", "f">>],
          [username |-> Str("a", 50), email |-> <<"a", "@", "b", ".", "c">>]}

ConcurrentCreateBodies ==
    IF variant = "conv"
    THEN {ConvocationSample}
    ELSE {[username |-> Str("a", 50), email |-> <<"d", "@", "e", ".", "f">>,
           password |-> Str("p", 8)]}

\* the ids the concurrent requests name: the two stored rows
ConcurrentIds == {1, 2}

\* the router's answer to the outcome of a handler
Concurrent_answer(r) ==
    IF variant = "conv"
    THEN Convocation_try_404(Outcome(db, next_id, r))
    ELSE proyecto_try_500(Outcome(db, next_id, r))

\* the outcome of update and delete when the lookup found nothing
Concurrent_not_found(got) ==
    IF variant = "conv" THEN got
    ELSE Raised("ValueError", <<"User", "not", "found">>)

\* session.add(o); commit() in a session that loaded the object as `loaded`:
\* UPDATE ... SET <the changed columns> WHERE id = o.id
session_flush_changed(table, loaded, o) ==
    [i \in 1..Len(table) |->
        IF table[i].id = o.id
        THEN [f \in DOMAIN table[i] |->
                 IF f \in DOMAIN o /\ o[f] # loaded[f] THEN o[f] ELSE table[i][f]]
        ELSE table[i]]

\* what no handler step touches: the record of the last sequential request
\* and the sessions of the dependency
Untouched ==
    UNCHANGED <<variant, req, ret, resp, before, stmts, hasher,
                session, created, open, closed>>

Finish(r, response) ==
    /\ answer' = [answer EXCEPT ![r] = response]
    /\ pc' = [pc EXCEPT ![r] = "done"]

Begin(r, request, position) ==
    /\ pc[r] = "idle"
    /\ task' = [task EXCEPT ![r] = request]
    /\ pc' = [pc EXCEPT ![r] = position]
    /\ UNCHANGED <<db, next_id, local, answer>>
    /\ Untouched

\* DELETE /{id} arrives
begin_delete(r) ==
    /\ task[r].op = "none"
    /\ \E id \in ConcurrentIds :
           Begin(r, [op |-> "delete", id |-> id, body |-> None], "lookup")

\* PUT /{id} arrives with a valid body
begin_update(r) ==
    \E id \in ConcurrentIds, body \in ConcurrentUpdateBodies :
        Begin(r, [op |-> "update", id |-> id, body |-> body], "lookup")

\* POST / arrives with a valid body
begin_create(r) ==
    \E body \in ConcurrentCreateBodies :
        Begin(r, [op |-> "create", id |-> 0, body |-> body], "insert")

\* a client starts to read the first two pages of n entities
begin_pages(r) ==
    /\ task[r].op = "none"
    /\ \E n \in 1..MaxLimit :
           Begin(r, [op |-> "pages", id |-> n, body |-> None], "page1")

\* update, delete: db_x = await self.get_by_id(id)
lookup(r) ==
    /\ pc[r] = "lookup"
    /\ LET got == Repository_get_by_id(db, next_id, task[r].id).ret
       IN  IF IsEntity(got)
           THEN /\ local' = [local EXCEPT ![r] = got.value]
                /\ pc' = [pc EXCEPT ![r] = "commit"]
                /\ UNCHANGED answer
           ELSE /\ Finish(r, Concurrent_answer(Concurrent_not_found(got)))
                /\ UNCHANGED local
    /\ UNCHANGED <<db, next_id, task>>
    /\ Untouched

\* delete: await self.session.delete(db_x); await self.session.commit()
commit_delete(r) ==
    /\ pc[r] = "commit"
    /\ task[r].op = "delete"
    /\ db' = session_delete(db, local[r])
    /\ Finish(r, Concurrent_answer(Returned(local[r])))
    /\ UNCHANGED <<next_id, task, local>>
    /\ Untouched

\* update: setattr(...); self.session.add(db_x); await self.session.commit()
commit_update(r) ==
    /\ pc[r] = "commit"
    /\ task[r].op = "update"
    /\ LET o == setattr_all(local[r], ValidatedBody(task[r]))
           table2 == session_flush_changed(db, local[r], o)
       IN  IF o = local[r]
           THEN /\ pc' = [pc EXCEPT ![r] = "refresh"]
                /\ UNCHANGED <<db, answer>>
           ELSE IF ~HasRow(db, o.id)
           THEN /\ Finish(r, Concurrent_answer(
                                 Raised("StaleDataError", <<"StaleDataError">>)))
                /\ UNCHANGED db
           ELSE IF variant = "proy"
                   /\ proyecto_unique_violation(db, RowOf(table2, o.id), o.id)
           THEN /\ Finish(r, Concurrent_answer(
                                 Raised("IntegrityError", <<"IntegrityError">>)))
                /\ UNCHANGED db
           ELSE /\ db' = table2
                /\ pc' = [pc EXCEPT ![r] = "refresh"]
                /\ UNCHANGED answer
    /\ UNCHANGED <<next_id, task, local>>
    /\ Untouched

\* create: self.session.add(db_x); await self.session.commit()
insert(r) ==
    /\ pc[r] = "insert"
    /\ LET o == IF variant = "conv" THEN ValidatedBody(task[r])
                ELSE UserInDB_new(ValidatedBody(task[r]))
           added == session_add_new(db, next_id, o)
       IN  IF variant = "proy" /\ proyecto_unique_violation(db, o, 0)
           THEN /\ Finish(r, Concurrent_answer(
                                 Raised("IntegrityError", <<"IntegrityError">>)))
                /\ UNCHANGED <<db, next_id, local>>
           ELSE /\ db' = added.table
                /\ next_id' = added.seq
                /\ local' = [local EXCEPT ![r] = added.row]
                /\ pc' = [pc EXCEPT ![r] = "refresh"]
                /\ UNCHANGED answer
    /\ UNCHANGED task
    /\ Untouched

\* create, update: await self.session.refresh(db_x); return
refresh(r) ==
    /\ pc[r] = "refresh"
    /\ IF HasRow(db, local[r].id)
       THEN Finish(r, Concurrent_answer(Returned(RowOf(db, local[r].id))))
       ELSE Finish(r, Concurrent_answer(
                          Raised("InvalidRequestError", <<"InvalidRequestError">>)))
    /\ UNCHANGED <<db, next_id, task, local>>
    /\ Untouched

\* GET /?skip=0&limit=n; the client keeps the page
page1(r) ==
    /\ pc[r] = "page1"
    /\ local' = [local EXCEPT ![r] =
                    [page1 |-> Repository_get_all(db, next_id, 0, task[r].id).ret.value,
                     table1 |-> db]]
    /\ pc' = [pc EXCEPT ![r] = "page2"]
    /\ UNCHANGED <<db, next_id, task, answer>>
    /\ Untouched

\* GET /?skip=n&limit=n
page2(r) ==
    /\ pc[r] = "page2"
    /\ local' = [local EXCEPT ![r] =
                    [page1 |-> local[r].page1,
                     table1 |-> local[r].table1,
                     page2 |-> Repository_get_all(db, next_id, task[r].id,
                                                  task[r].id).ret.value,
                     table2 |-> db]]
    /\ pc' = [pc EXCEPT ![r] = "done"]
    /\ UNCHANGED <<db, next_id, task, answer>>
    /\ Untouched

InitConcurrent ==
    /\ variant \in {"conv", "proy"}
    /\ db = ConcurrentStore(variant).table
    /\ next_id = ConcurrentStore(variant).seq
    /\ req = Request("none", 0, None, 0, 0)
    /\ ret = NotCalled
    /\ resp = HTTPResponse(0, None)
    /\ before = <<>>
    /\ stmts = <<>>
    /\ hasher = "none"
    /\ pc = [r \in Requests |-> "idle"]
    /\ session = [r \in Requests |-> 0]
    /\ created = 0
    /\ open = {}
    /\ closed = {}
    /\ task = [r \in Requests |-> NoTask]
    /\ local = [r \in Requests |-> None]
    /\ answer = [r \in Requests |-> HTTPResponse(0, None)]

NextConcurrent ==
    \E r \in Requests :
        \/ begin_delete(r)
        \/ begin_update(r)
        \/ begin_create(r)
        \/ begin_pages(r)
        \/ lookup(r)
        \/ commit_delete(r)
        \/ commit_update(r)
        \/ insert(r)
        \/ refresh(r)
        \/ page1(r)
        \/ page2(r)

SpecConcurrent == InitConcurrent /\ [][NextConcurrent]_vars

(***************************************************************************)
(* C1  Round trip: right after create(x) returned, get_by_id of the        *)
(* returned id returns a value equal to the one create returned, whatever  *)
(* the store held before.                                                  *)
(***************************************************************************)
C1_RoundTrip ==
    (req.op = "create" /\ ret.kind = "return")
        => Repository_get_by_id(db, next_id, ret.value.id).ret = ret

\* a create into a store that already holds a row
C1_Witness ==
    /\ req.op = "create"
    /\ ret.kind = "return"
    /\ Len(before) >= 1
    /\ ret.value.id = MaxId
    /\ IsEntity(Repository_get_by_id(db, next_id, ret.value.id).ret)

(***************************************************************************)
(* C2  For an id that has no row (never created, or deleted), get_by_id,   *)
(* update and delete each fail with the Not-found error and return no      *)
(* value, in every repository variant.                                     *)
(***************************************************************************)
C2_AbsentIdFailsNotFound ==
    (/\ req.op \in {"get_by_id", "update", "delete"}
     /\ Handled
     /\ ~HasRow(before, req.id))
        => IsNotFound(ret)

(***************************************************************************)
(* C3  Merge patch: after update(e.id, p) succeeded, the stored entity has *)
(* p's value in every field p carries and e's prior value in every other   *)
(* field; update's return value and a following get_by_id show the same.   *)
(***************************************************************************)
C3_MergePatch ==
    (req.op = "update" /\ ret.kind = "return")
        => LET e == RowOf(before, req.id)
               p == [f \in DOMAIN req.body \cap UpdateFields |-> req.body[f]]
               stored == RowOf(db, req.id)
           IN  /\ HasRow(before, req.id)
               /\ HasRow(db, req.id)
               /\ DOMAIN stored = DOMAIN e
               /\ \A f \in DOMAIN e :
                     stored[f] = IF f \in DOMAIN p THEN p[f] ELSE e[f]
               /\ \A f \in ReadFields : ret.value[f] = stored[f]
               /\ LET got == Repository_get_by_id(db, next_id, req.id).ret
                  IN  /\ IsEntity(got)
                      /\ \A f \in ReadFields : got.value[f] = stored[f]

\* an update that carries some fields and not others, changes the username
\* and keeps a first name the entity had
C3_Witness ==
    /\ req.op = "update"
    /\ ret.kind = "return"
    /\ variant # "conv"
    /\ "first_name" \notin DOMAIN req.body
    /\ RowOf(before, req.id).first_name = Jane
    /\ RowOf(db, req.id).first_name = Jane
    /\ RowOf(db, req.id).username # RowOf(before, req.id).username

C5_Pagination ==
    \A N \in 0..MaxLimit :
        Repository_get_all(db, next_id, 0, N).ret.value
            \o Repository_get_all(db, next_id, N, N).ret.value
        = Repository_get_all(db, next_id, 0, 2 * N).ret.value

\* the second page of a store of two rows was read and holds the second row
C5_Witness ==
    /\ req.op = "get_all"
    /\ req.skip = 1
    /\ req.limit = 1
    /\ Len(db) = 2
    /\ db = before
    /\ Len(ret.value) = 1
    /\ ret.value[1].id = db[2].id

(***************************************************************************)
(* C6  In every router variant GET, PUT with a valid body and DELETE on    *)
(* /<entities>/{id} for an id without a row answer 404 with a detail that  *)
(* contains "not found".                                                   *)
(***************************************************************************)
C6_AbsentIdAnswers404 ==
    (/\ req.op \in {"get_by_id", "update", "delete"}
     /\ Handled
     /\ ~HasRow(before, req.id))
        => resp.status = 404 /\ ContainsNotFound(resp.body)

(***************************************************************************)
(* C7  In every user router variant, a DELETE /users/{id} that answered    *)
(* 200 followed directly by a second DELETE of the same id: the second     *)
(* answers 404; and a DELETE of an existing id answers 200.                *)
(***************************************************************************)
C7_DeleteTwice ==
    [][(variant # "conv" /\ req'.op = "delete")
          => /\ HasRow(db, req'.id) => resp'.status = 200
             /\ (req.op = "delete" /\ req.id = req'.id /\ resp.status = 200)
                   => resp'.status = 404]_vars

(***************************************************************************)
(* C8  PUT /users/{id} for an existing user with a body that supplies only *)
(* first_name answers 200; the response carries the supplied first_name    *)
(* and every other field as it was before.                                 *)
(***************************************************************************)
C8_PutFirstNameOnly ==
    (/\ variant # "conv"
     /\ req.op = "update"
     /\ DOMAIN req.body = {"first_name"}
     /\ HasRow(before, req.id))
        => /\ resp.status = 200
           /\ resp.body.first_name = req.body.first_name
           /\ \A f \in UserFields \ {"first_name"} :
                 resp.body[f] = RowOf(before, req.id)[f]

(***************************************************************************)
(* C9  POST /convocations with a title shorter than 5 characters (the      *)
(* empty title included) is rejected with 422 and stores nothing; with a   *)
(* title of exactly 5 characters and the other fields in bounds it is      *)
(* accepted and stored.                                                    *)
(***************************************************************************)
C9_TitleMinLength ==
    (variant = "conv" /\ req.op = "create" /\ "title" \in DOMAIN req.body)
        => /\ Len(req.body.title) < 5
                 => resp.status = 422 /\ ret = NotCalled /\ db = before
           /\ (Len(req.body.title) = 5 /\ req.body \in ConvocationWellFormedBodies)
                 => /\ resp.status = 200
                    /\ Len(db) = Len(before) + 1
                    /\ db[Len(db)].title = req.body.title

\* a title of four characters was posted and refused
C9_Witness ==
    /\ variant = "conv"
    /\ req.op = "create"
    /\ Len(req.body.title) = 4
    /\ resp.status = 422

(***************************************************************************)
(* C10  POST /convocations with a start date later than the end date is    *)
(* rejected with a validation error, and no stored convocation has         *)
(* start_date > end_date.                                                  *)
(***************************************************************************)
C10_DateRange ==
    /\ (/\ variant = "conv"
        /\ req.op = "create"
        /\ {"start_date", "end_date"} \subseteq DOMAIN req.body
        /\ DateLess(req.body.end_date, req.body.start_date))
          => resp.status = 422
    /\ variant = "conv"
          => \A i \in 1..Len(db) : ~DateLess(db[i].end_date, db[i].start_date)

(***************************************************************************)
(* C11  POST /convocations with a title longer than 100 characters is      *)
(* rejected with a validation error; with a title of exactly 100           *)
(* characters and the other fields in bounds it is accepted.               *)
(***************************************************************************)
C11_TitleMaxLength ==
    (/\ variant = "conv"
     /\ req.op = "create"
     /\ "title" \in DOMAIN req.body
     /\ req.body.title # None)
        => /\ Len(req.body.title) > 100
                 => resp.status = 422 /\ ret = NotCalled /\ db = before
           /\ (Len(req.body.title) = 100 /\ req.body \in ConvocationLongTitleBodies)
                 => resp.status = 200 /\ Handled

C14_IdAssignedOnce ==
    /\ "id" \notin ConvocationBaseFields \cup UserBaseFields \cup UserCreateFields
    /\ req.op = "update"
          => /\ Len(db) = Len(before)
             /\ \A i \in 1..Len(db) : db[i].id = before[i].id
             /\ IsEntity(ret) => ret.value.id = req.id
    /\ (req.op = "create" /\ ret.kind = "return")
          => /\ Len(db) = Len(before) + 1
             /\ \A i \in 1..Len(before) : db[i].id = before[i].id
             /\ db[Len(db)].id = next_id - 1
             /\ ret.value.id = next_id - 1
             /\ ~HasRow(before, ret.value.id)
             /\ "id" \in DOMAIN req.body => ret.value.id # req.body.id

\* an update whose body carried an id changed the row and kept the row's id
C14_Witness ==
    /\ req.op = "update"
    /\ "id" \in DOMAIN req.body
    /\ req.body.id # req.id
    /\ IsEntity(ret)
    /\ db # before
    /\ HasRow(db, req.id)

C16_NoSecretInResponse ==
    (variant # "conv" /\ resp.status = 200)
        => IF req.op = "get_all"
           THEN \A i \in 1..Len(resp.body) :
                    DOMAIN resp.body[i] \cap {"password", "hashed_password"} = {}
           ELSE DOMAIN resp.body \cap {"password", "hashed_password"} = {}

\* the repository handed the stored row, hashed_password included, to the
\* router and the request was answered 200
C16_Witness ==
    /\ variant = "proy"
    /\ req.op = "create"
    /\ resp.status = 200
    /\ "hashed_password" \in DOMAIN ret.value
    /\ ret.value.hashed_password = req.body.password

(***************************************************************************)
(* C17  delete(id) of a stored entity removes that row and no other, and   *)
(* returns what get_by_id(id) would have returned right before the         *)
(* delete; the response carries the Read-output of the removed row.        *)
(***************************************************************************)
C17_DeleteReturnsLastValues ==
    (req.op = "delete" /\ HasRow(before, req.id))
        => /\ db = SelectSeq(before, LAMBDA r : r.id # req.id)
           /\ Len(db) = Len(before) - 1
           /\ ret = Repository_get_by_id(before, next_id, req.id).ret
           /\ resp = HTTPResponse(200, from_orm(ReadFields, RowOf(before, req.id)))

\* one of two stored rows was deleted and the other is still there
C17_Witness ==
    /\ req.op = "delete"
    /\ Len(before) = 2
    /\ HasRow(before, req.id)
    /\ Len(db) = 1
    /\ IsEntity(ret)
    /\ ret.value.id = req.id

(***************************************************************************)
(* C18  A request whose body fails the schema of its endpoint is answered  *)
(* 422 without any repository operation being called, and the store is as  *)
(* it was before the request.                                              *)
(***************************************************************************)
C18_InvalidBodyRejectedFirst ==
    BodyFailsSchema
        => /\ resp.status = 422
           /\ ret = NotCalled
           /\ db = before

\* an update of a stored row with a body that fails the schema was refused
C18_Witness ==
    /\ req.op = "update"
    /\ BodyFailsSchema
    /\ HasRow(before, req.id)
    /\ resp.status = 422
    /\ db = before

(***************************************************************************)
(* C19  In proyecto, whose users table declares username and email         *)
(* unique, a create whose username or email equals that of a stored user   *)
(* fails at the insert: the table is as it was before the request, the     *)
(* router's catch-all answers 500, and in every reachable state no two     *)
(* stored users share a username or an email.                              *)
(***************************************************************************)
C19_DuplicateUserRefused ==
    variant = "proy"
        => /\ \A i, j \in 1..Len(db) :
                 i # j => /\ db[i].username # db[j].username
                          /\ db[i].email # db[j].email
           /\ (/\ req.op = "create"
               /\ Handled
               /\ \E i \in 1..Len(before) :
                      \/ before[i].username = req.body.username
                      \/ before[i].email = req.body.email)
                 => /\ db = before
                    /\ ret.kind = "IntegrityError"
                    /\ resp.status = 500

\* a create with a new username and the email of a stored user was refused
C19_Witness ==
    /\ variant = "proy"
    /\ req.op = "create"
    /\ Handled
    /\ \E i \in 1..Len(before) :
          /\ before[i].email = req.body.email
          /\ before[i].username # req.body.username
    /\ resp.status = 500
    /\ db = before

C21_ServicePassThrough ==
    Handled
        => LET viaService == Service_call(before, SeqBefore, req)
               direct == Repository_call(before, SeqBefore, req)
           IN  /\ viaService.ret = direct.ret
               /\ viaService.table = direct.table
               /\ viaService.seq = direct.seq
               /\ viaService.stmts = direct.stmts
               /\ ret = direct.ret
               /\ db = direct.table
               /\ next_id = direct.seq

\* a delete that went through the service removed a row
C21_Witness ==
    /\ req.op = "delete"
    /\ IsEntity(ret)
    /\ Len(db) = Len(before) - 1
    /\ Service_call(before, SeqBefore, req).table = db

(***************************************************************************)
(* C22  as stated: when a user is created the service hashes the password  *)
(* before it delegates to the repository, and the hashed_password stored   *)
(* equals the password submitted.                                          *)
(***************************************************************************)
C22_ServiceHashesPassword ==
    (variant # "conv" /\ req.op = "create" /\ ret.kind = "return")
        => /\ hasher = "service"
           /\ db[Len(db)].hashed_password = req.body.password

(***************************************************************************)
(* C22  amended: when a user is created the repository's create calls      *)
(* _hash_password (the service only forwards the Create-input); the hash   *)
(* is the identity, so the hashed_password stored for the created user     *)
(* equals the password submitted.  No other request hashes anything.       *)
(***************************************************************************)
C22_RepositoryHashesPassword ==
    /\ (variant # "conv" /\ req.op = "create" /\ Handled)
          => /\ hasher = "repository"
             /\ ret.kind = "return"
                   => /\ db[Len(db)].id = ret.value.id
                      /\ db[Len(db)].hashed_password = req.body.password
    /\ (variant = "conv" \/ req.op # "create" \/ ~Handled) => hasher = "none"

\* a user was created and its row holds the submitted password as the hash
C22_Witness ==
    /\ variant # "conv"
    /\ req.op = "create"
    /\ ret.kind = "return"
    /\ hasher = "repository"
    /\ db[Len(db)].hashed_password = req.body.password

(***************************************************************************)
(* C23  Every request gets a session of its own: the session a request     *)
(* acquires was never open or closed before, no two requests in flight     *)
(* hold the same session, and every session that is open is eventually     *)
(* closed, whether its handler returned or raised.                         *)
(***************************************************************************)
C23_SessionPerRequest ==
    /\ [](\A r1, r2 \in Requests :
             (r1 # r2 /\ session[r1] # 0) => session[r1] # session[r2])
    /\ [](\A r \in Requests : (pc[r] # "idle") <=> (session[r] \in open))
    /\ [][\A r \in Requests :
             (pc[r] = "idle" /\ pc'[r] # "idle")
                 => /\ session'[r] \notin open \cup ClosedIds
                    /\ session'[r] \in open']_vars
    /\ \A s \in 1..MaxSessions : (s \in open) ~> (s \in ClosedIds /\ s \notin open)

\* the session of a request whose handler raised has been closed while
\* another request still holds its own
C23_Witness ==
    /\ \E c \in closed : c.after = "raised" /\ c.id \notin open
    /\ \E r \in Requests : pc[r] = "handler" /\ session[r] \in open

(***************************************************************************)
(* C24  The repository's get_by_id, called with an id that has no row      *)
(* (id 0 for one), returns None and does not raise.                        *)
(***************************************************************************)
C24_AbsentIdReturnsNone ==
    (req.op = "get_by_id" /\ ~HasRow(before, req.id))
        => ret = Returned(None)

(***************************************************************************)
(* C25  Paging drifts when a write commits between the reads of two pages: *)
(* there is an interleaving of get_all(skip=0, limit=N), a delete and      *)
(* get_all(skip=N, limit=N) after which an entity stored at both reads is  *)
(* in neither page.  It takes such a write: when the table is the same at  *)
(* both reads the two pages are the first 2N entities, each exactly once.  *)
(***************************************************************************)
PageIds(page) == [i \in 1..Len(page) |-> page[i].id]

TableIds(table) == [i \in 1..Len(table) |-> table[i].id]

InPage(page, id) == \E i \in 1..Len(page) : page[i].id = id

\* the client r has read both pages
ReadBothPages(r) == task[r].op = "pages" /\ pc[r] = "done"

\* an entity stored at both reads, among the first 2N at the first read, is
\* in neither page or in both
Drifted(r) ==
    \E i \in 1..Len(local[r].table1) :
        LET id == local[r].table1[i].id
        IN  /\ i <= 2 * task[r].id
            /\ HasRow(local[r].table2, id)
            /\ InPage(local[r].page1, id) <=> InPage(local[r].page2, id)

C25_PaginationDrift ==
    \A r \in Requests :
        ReadBothPages(r) =>
            /\ Drifted(r) => local[r].table1 # local[r].table2
            /\ local[r].table1 = local[r].table2
                   => PageIds(local[r].page1) \o PageIds(local[r].page2)
                          = TableIds(Limit(local[r].table1, 2 * task[r].id))

\* a delete answered 200 between the two reads of a client, and the entity
\* that followed the deleted one is in neither of the client's pages
C25_Witness ==
    \E r, w \in Requests :
        /\ ReadBothPages(r)
        /\ Drifted(r)
        /\ task[w].op = "delete" /\ pc[w] = "done" /\ answer[w].status = 200
        /\ HasRow(local[r].table1, task[w].id)
        /\ ~HasRow(local[r].table2, task[w].id)

(***************************************************************************)
(* C26  get_by_id and get_all never change the store, and an update or a   *)
(* delete that fails with the Not-found error leaves every stored entity   *)
(* as it was.                                                              *)
(***************************************************************************)
C26_ReadsAndFailuresKeepStore ==
    /\ req.op \in {"get_by_id", "get_all"} => (db = before /\ next_id = SeqBefore)
    /\ (req.op \in {"update", "delete"} /\ IsNotFound(ret))
           => (db = before /\ next_id = SeqBefore)

\* an update or a delete failed with Not-found on a store that holds an entity
C26_Witness ==
    /\ req.op \in {"update", "delete"}
    /\ IsNotFound(ret)
    /\ before # <<>>
    /\ db = before

(***************************************************************************)
(* C27  Two DELETE requests for the same stored id, interleaved at the     *)
(* awaits between lookup and commit: in every interleaving one is answered *)
(* 200 and the other 404.                                                  *)
(***************************************************************************)
\* the lookup of request r found the entity (r went on to its commit)
LookedUp(r) == local[r] # None

\* both requests were between their lookup and their commit at one time:
\* both lookups found the entity that only one commit can delete
C27_ConcurrentDeleteOnce ==
    \A r1, r2 \in Requests :
        (/\ r1 # r2
         /\ task[r1].op = "delete" /\ pc[r1] = "done"
         /\ task[r2].op = "delete" /\ pc[r2] = "done"
         /\ task[r1].id = task[r2].id
         /\ LookedUp(r1) /\ LookedUp(r2))
            => {answer[r1].status, answer[r2].status} = {200, 404}

(***************************************************************************)
(* C28  Two update requests for the same stored id, interleaved at their   *)
(* awaits: in every interleaving the table they leave is the one that      *)
(* applying the two updates one after the other, in one of the two orders, *)
(* leaves.                                                                 *)
(***************************************************************************)
\* the table after the update of request r1 and then that of r2, each run
\* to its end
UpdatedInTurn(r1, r2) ==
    LET start == ConcurrentStore(variant)
        first == Repository_call(start.table, start.seq,
                                 Request("update", task[r1].id, task[r1].body, 0, 0))
    IN  Repository_call(first.table, first.seq,
                        Request("update", task[r2].id, task[r2].body, 0, 0)).table

C28_ConcurrentUpdatesSerializable ==
    \A r1, r2 \in Requests :
        (/\ r1 # r2
         /\ task[r1].op = "update" /\ pc[r1] = "done"
         /\ task[r2].op = "update" /\ pc[r2] = "done"
         /\ task[r1].id = task[r2].id
         /\ \A r \in Requests \ {r1, r2} : pc[r] = "idle")
            => db \in {UpdatedInTurn(r1, r2), UpdatedInTurn(r2, r1)}

====
